---- MODULE Spec2Model ----
(***************************************************************************)
(* Model of the KDP manuscript formatter (services/formatter.py,           *)
(* services/frontmatter.py, services/dpi_checker.py).                      *)
(*                                                                         *)
(* One call of format_manuscript is a run of the program counter pc        *)
(* through the stages of the try block; a second call on the written       *)
(* package models re-formatting with identical options.                    *)
(*                                                                         *)
(* Lengths are in twentieths of a point (the unit the section properties   *)
(* are stored in), font sizes in points, line spacing in hundredths.       *)
(* Run text is a sequence over the alphabet {"T","S","N","X"}: tab, space, *)
(* newline, any other character.                                           *)
(***************************************************************************)
EXTENDS Integers, Sequences, FiniteSets, TLC

\* ------------------------------------------------------------------ bounds
MaxOrig == 2
MaxPass == 2
MaxRuns == 2
MaxLen == 5

\* ------------------------------------------------------- program constants
TocCap == 30
TitleSpacers == 8
CopyrightSpacers == 6
CopyrightLines == 11
DedicationSpacers == 10
MinDpi == 300
DefaultDpi == 72
BodyPt == 11
HeadingPt == 18
TitlePt == 36
CopyrightPt == 10
DedicationPt == 14
FallbackPt == 10
SpaceAfterPt == 6
HeadingSpaceBeforePt == 24
HeadingSpaceAfterPt == 12
Unset == 0 - 1

\* Inches(num/den) as stored in the section properties
Inches(num, den) == (num * 1440) \div den

TRIM_SIZES ==
  [ k \in {"6x9", "5x8", "8.5x11"} |->
      CASE k = "6x9" -> [width |-> Inches(6, 1), height |-> Inches(9, 1)]
        [] k = "5x8" -> [width |-> Inches(5, 1), height |-> Inches(8, 1)]
        [] k = "8.5x11" -> [width |-> Inches(85, 10), height |-> Inches(11, 1)] ]

MARGINS ==
  [ top |-> Inches(1, 1), bottom |-> Inches(1, 1),
    inside |-> Inches(85, 100), outside |-> Inches(6, 10) ]

\* ------------------------------------------------------------ the state
VARIABLES
  pc,            \* position inside format_manuscript
  pass,          \* number of the format_manuscript call (1 = first)
  inPkg,         \* the package at input_path
  outFile,       \* what is at output_path: "absent", "partial", "complete"
  outPkg,        \* the entries written to output_path
  trim_size, print_mode, line_spacing,   \* the options of the call
  body,          \* doc.element.body: the ordered block elements
  sections,      \* doc.sections: one record per w:sectPr
  styles,        \* doc.styles: the styles part
  parts,         \* the other parts the loaded package holds
  dpi_warnings,  \* the local dpi_warnings of format_manuscript
  result,        \* the dictionary format_manuscript returns
  pre_front,     \* the body as insert_front_matter found it
  pre_toc,       \* the body as _insert_toc found it
  pass1,         \* sections and styles at the end of the first call
  zip_ok,        \* whether the archive at the scanned path can be opened
  dpi_floor      \* the min_dpi argument of check_image_dpi

vars == << pc, pass, inPkg, outFile, outPkg, trim_size, print_mode, line_spacing,
           body, sections, styles, parts, dpi_warnings, result,
           pre_front, pre_toc, pass1, zip_ok, dpi_floor >>

\* ------------------------------------------------------ sequence helpers
RECURSIVE SeqsUpTo(_, _)
SeqsUpTo(S, n) ==
  IF n = 0 THEN { << >> }
  ELSE LET shorter == SeqsUpTo(S, n - 1)
       IN  shorter \cup { Append(s, x) : s \in { t \in shorter : Len(t) = n - 1 }, x \in S }

Reverse(s) == [ i \in 1..Len(s) |-> s[Len(s) + 1 - i] ]

Contains(s, e) == \E i \in 1..Len(s) : s[i] = e

IndexOf(s, e) == CHOOSE i \in 1..Len(s) : s[i] = e

RemoveAt(s, i) == SubSeq(s, 1, i - 1) \o SubSeq(s, i + 1, Len(s))

InsertAt(s, i, e) == SubSeq(s, 1, i - 1) \o << e >> \o SubSeq(s, i, Len(s))

\* an element has one parent: linking it somewhere unlinks it where it was
Unlink(s, e) == IF Contains(s, e) THEN RemoveAt(s, IndexOf(s, e)) ELSE s

\* ------------------------------------------------------------- elements
\* A run: its kind ("text", or a field marker / break of the TOC and page
\* break paragraphs), character formatting and text.
Run(kind, font, size, bold, text) ==
  [ kind |-> kind, font |-> font, size |-> size, bold |-> bold, text |-> text ]

\* paragraph.add_run(text) followed by no formatting
PlainRun(kind, text) == Run(kind, "inherit", Unset, FALSE, text)

\* A block element of the body.  org/gen/idx identify the element: where it
\* comes from, the call that created it (0 = the input), its index there.
Elem(tag, org, gen, idx, style, runs, align) ==
  [ tag |-> tag, org |-> org, gen |-> gen, idx |-> idx, style |-> style,
    page_break_before |-> FALSE, alignment |-> align, runs |-> runs,
    line_spacing |-> Unset, space_after |-> Unset, first_line_indent |-> Unset ]

\* doc.add_paragraph() creates an empty paragraph in the default style
NewPara(org, gen, idx, runs, align) == Elem("p", org, gen, idx, "Normal", runs, align)

SectPrElem == Elem("sectPr", "sectPr", 0, 0, "none", << >>, "inherit")

IsPara(e) == e.tag = "p"

\* doc.paragraphs positions: the w:p children of the body
ParaIdx(b) == { i \in 1..Len(b) : IsPara(b[i]) }

\* ------------------------------------------------- element tree operations
\* first_element.addprevious(element): element becomes the sibling
\* immediately before the pivot
addprevious(b, pivot, e) ==
  IF e = pivot THEN b
  ELSE LET b1 == Unlink(b, e) IN InsertAt(b1, IndexOf(b1, pivot), e)

\* body.append(element)
BodyAppend(b, e) == Append(Unlink(b, e), e)

\* body.insert(index, element), index counted from 0 over the children as
\* they are when the call is made
BodyInsert(b, index, e) ==
  IF index >= Len(b) THEN BodyAppend(b, e) ELSE addprevious(b, b[index + 1], e)

\* doc.add_paragraph(): the new w:p goes before the body's w:sectPr, or last
add_paragraph(b, p) ==
  IF \E i \in 1..Len(b) : b[i].tag = "sectPr"
  THEN InsertAt(b, CHOOSE i \in 1..Len(b) :
                     b[i].tag = "sectPr" /\ \A j \in 1..(i - 1) : b[j].tag # "sectPr", p)
  ELSE Append(b, p)

\* doc.add_paragraph() for ps[k], ps[k+1], ... in turn
RECURSIVE add_paragraphs_from(_, _, _)
add_paragraphs_from(b, ps, k) ==
  IF k > Len(ps) THEN b
  ELSE LET nb == add_paragraph(b, ps[k])
       IN  IF Len(nb) > 0 THEN add_paragraphs_from(nb, ps, k + 1) ELSE nb

add_paragraphs(b, ps) == add_paragraphs_from(b, ps, 1)

\* --------------------------------------------------- front matter composer
Spacers(org, gen, from, n) ==
  [ i \in 1..n |-> NewPara(org, gen, from + i - 1, << >>, "inherit") ]

\* _create_page_break() inside an otherwise empty run of a new paragraph
page_break_para(org, gen, idx) ==
  NewPara(org, gen, idx, << PlainRun("br", << >>) >>, "inherit")

\* _create_title_page: 8 spacers, title, 2 spacers, author, page break
create_title_page(gen) ==
  Spacers("title", gen, 1, TitleSpacers)
  \o << NewPara("title", gen, TitleSpacers + 1,
                << Run("text", "Georgia", TitlePt, TRUE, << "X" >>) >>, "center") >>
  \o Spacers("title", gen, TitleSpacers + 2, 2)
  \o << NewPara("title", gen, TitleSpacers + 4,
                << Run("text", "Georgia", HeadingPt, FALSE, << "X" >>) >>, "center"),
        page_break_para("title", gen, TitleSpacers + 5) >>

\* _create_copyright_page: 6 spacers, one paragraph per line of the
\* template (every second line of it is empty), page break
create_copyright_page(gen) ==
  Spacers("copyright", gen, 1, CopyrightSpacers)
  \o [ i \in 1..CopyrightLines |->
         NewPara("copyright", gen, CopyrightSpacers + i,
                 << Run("text", "Georgia", CopyrightPt, FALSE,
                        IF i % 2 = 1 THEN << "X" >> ELSE << >>) >>, "center") ]
  \o << page_break_para("copyright", gen, CopyrightSpacers + CopyrightLines + 1) >>

\* _create_dedication_page: 10 spacers, dedication line, page break
create_dedication_page(gen) ==
  Spacers("dedication", gen, 1, DedicationSpacers)
  \o << NewPara("dedication", gen, DedicationSpacers + 1,
                << Run("text", "Georgia", DedicationPt, FALSE, << "X" >>) >>, "center"),
        page_break_para("dedication", gen, DedicationSpacers + 2) >>

front_matter_elements(gen) ==
  create_title_page(gen) \o create_copyright_page(gen) \o create_dedication_page(gen)

\* the splice loop of insert_front_matter: seq is the list the loop walks,
\* k the position of the loop in it
RECURSIVE SpliceFront(_, _, _, _, _)
SpliceFront(b, has_first, first_element, seq, k) ==
  IF k > Len(seq) THEN b
  ELSE LET nb == IF has_first THEN addprevious(b, first_element, seq[k])
                              ELSE BodyAppend(b, seq[k])
       IN  IF Len(nb) > 0 THEN SpliceFront(nb, has_first, first_element, seq, k + 1) ELSE nb

\* insert_front_matter(doc, title, author) on the body
insert_front_matter(b, gen) ==
  LET has_first == Len(b) > 0
      first_element == IF has_first THEN b[1] ELSE SectPrElem
      elements == front_matter_elements(gen)
      created == add_paragraphs(b, elements)
  IN  SpliceFront(created, has_first, first_element, Reverse(elements), 1)

\* ------------------------------------------------------------ TOC injector
\* _add_toc_field: begin marker, instruction, separator, fallback text, end
add_toc_field ==
  << PlainRun("fld_begin", << >>),
     PlainRun("instrText", << >>),
     PlainRun("fld_separate", << >>),
     Run("text", "inherit", FallbackPt, FALSE, << "X", "S", "X" >>),
     PlainRun("fld_end", << >>) >>

\* toc_elements: heading, spacer, field paragraph, page break
toc_elements(gen) ==
  << NewPara("toc", gen, 1,
             << Run("text", "Georgia", HeadingPt, TRUE, << "X", "S", "X" >>) >>, "center"),
     NewPara("toc", gen, 2, << >>, "inherit"),
     NewPara("toc", gen, 3, add_toc_field, "inherit"),
     page_break_para("toc", gen, 4) >>

\* the counting loop: front_matter_count after the walk over body[i..]
RECURSIVE front_matter_count(_, _, _)
front_matter_count(b, i, count) ==
  IF i > Len(b) THEN count
  ELSE IF IsPara(b[i])
       THEN LET c == count + 1
            IN  IF c > TocCap THEN c ELSE front_matter_count(b, i + 1, c)
       ELSE front_matter_count(b, i + 1, count)

Min(a, c) == IF a < c THEN a ELSE c

\* insert_position as _insert_toc computes it on the body that already
\* holds the four new paragraphs
insert_position(b) == Min(front_matter_count(b, 1, 0), Len(b) - 1)

\* the insertion loop of _insert_toc: seq is the list the loop walks, k the
\* position of the loop in it
RECURSIVE SpliceToc(_, _, _, _)
SpliceToc(b, position, seq, k) ==
  IF k > Len(seq) THEN b
  ELSE LET nb == IF position < Len(b)
                 THEN BodyInsert(b, position, seq[k])
                 ELSE BodyAppend(b, seq[k])
       IN  IF Len(nb) > 0 THEN SpliceToc(nb, position, seq, k + 1) ELSE nb

\* _insert_toc(doc) on the body
insert_toc(b, gen) ==
  LET elements == toc_elements(gen)
      created == add_paragraphs(b, elements)
  IN  SpliceToc(created, insert_position(created), Reverse(elements), 1)

\* ------------------------------------------------ page & style configurator
\* a lookup whose default is the largest preset
TrimSizeLetterDefault(key) ==
  IF key \in DOMAIN TRIM_SIZES THEN TRIM_SIZES[key] ELSE TRIM_SIZES["8.5x11"]

\* TRIM_SIZES.get(trim_size, TRIM_SIZES['6x9'])
TrimSize(key) == IF key \in DOMAIN TRIM_SIZES THEN TRIM_SIZES[key] ELSE TRIM_SIZES["6x9"]

\* the loop body of _setup_page_dimensions on one section; mirrorMargins
\* counts the w:mirrorMargins children of the section's sectPr
SetupSection(sec, size, print) ==
  IF print
  THEN [ sec EXCEPT !.page_width = size.width, !.page_height = size.height,
                    !.top_margin = MARGINS.top, !.bottom_margin = MARGINS.bottom,
                    !.left_margin = MARGINS.inside, !.right_margin = MARGINS.outside,
                    !.gutter = Inches(0, 1),
                    !.mirrorMargins = @ + 1 ]
  ELSE [ sec EXCEPT !.page_width = size.width, !.page_height = size.height,
                    !.top_margin = MARGINS.top, !.bottom_margin = MARGINS.bottom,
                    !.left_margin = MARGINS.inside, !.right_margin = MARGINS.outside ]

\* _setup_page_dimensions(doc, trim_size, print_mode)
setup_page_dimensions(secs, key, print) ==
  [ i \in 1..Len(secs) |-> SetupSection(secs[i], TrimSize(key), print) ]

\* doc.styles.add_style(name, PARAGRAPH): a style with nothing set
NewStyle(name) ==
  [ name |-> name, font |-> "inherit", size |-> Unset, bold |-> FALSE,
    alignment |-> "inherit", line_spacing |-> Unset, space_before |-> Unset,
    space_after |-> Unset, first_line_indent |-> Unset, page_break_before |-> FALSE ]

HasStyle(st, name) == \E i \in 1..Len(st) : st[i].name = name

\* doc.styles[name]: the first style of that name
StyleIndex(st, name) ==
  CHOOSE i \in 1..Len(st) : st[i].name = name /\ \A j \in 1..(i - 1) : st[j].name # name

\* try: doc.styles[name]  except KeyError: doc.styles.add_style(name, ...)
EnsureStyle(st, name) == IF HasStyle(st, name) THEN st ELSE Append(st, NewStyle(name))

SetNormalStyle(sty, ls) ==
  [ sty EXCEPT !.font = "Georgia", !.size = BodyPt, !.line_spacing = ls,
               !.space_after = SpaceAfterPt, !.first_line_indent = Inches(25, 100) ]

SetHeading1Style(sty) ==
  [ sty EXCEPT !.font = "Georgia", !.size = HeadingPt, !.bold = TRUE,
               !.alignment = "center", !.space_before = HeadingSpaceBeforePt,
               !.space_after = HeadingSpaceAfterPt, !.first_line_indent = Inches(0, 1),
               !.page_break_before = TRUE ]

\* _setup_styles(doc, line_spacing)
setup_styles(st, ls) ==
  LET s1 == EnsureStyle(st, "Normal")
      s2 == [ s1 EXCEPT ![StyleIndex(s1, "Normal")] = SetNormalStyle(@, ls) ]
      s3 == EnsureStyle(s2, "Heading 1")
  IN  [ s3 EXCEPT ![StyleIndex(s3, "Heading 1")] = SetHeading1Style(@) ]

\* ----------------------------------------------------------- text normalizer
\* length of the longest prefix of s made of the character c
RECURSIVE PrefixLen(_, _)
PrefixLen(s, c) ==
  IF s = << >> \/ Head(s) # c THEN 0 ELSE 1 + PrefixLen(Tail(s), c)

\* text.replace('\t', ' ')
ReplaceTabs(s) == [ i \in 1..Len(s) |-> IF s[i] = "T" THEN "S" ELSE s[i] ]

\* re.sub(c{least,}, repl, s): leftmost, greedy, non-overlapping matches
RECURSIVE ReSub(_, _, _, _)
ReSub(s, c, least, repl) ==
  IF s = << >> THEN << >>
  ELSE LET n == PrefixLen(s, c)
       IN  IF n >= least
           THEN repl \o ReSub(SubSeq(s, n + 1, Len(s)), c, least, repl)
           ELSE << Head(s) >> \o ReSub(Tail(s), c, least, repl)

\* the rewrites with the spaces collapsed before the tabs are replaced
CleanTextTabsLast(text) ==
  LET t1 == ReSub(text, "S", 2, << "S" >>)
      t2 == ReplaceTabs(t1)
  IN  ReSub(t2, "N", 3, << "N", "N" >>)

\* the three rewrites of _cleanup_text, in the order of the code
CleanText(text) ==
  LET t1 == ReplaceTabs(text)
      t2 == ReSub(t1, "S", 2, << "S" >>)
  IN  ReSub(t2, "N", 3, << "N", "N" >>)

\* if run.text: ... run.text = text
CleanRun(r) == IF r.text # << >> THEN [ r EXCEPT !.text = CleanText(@) ] ELSE r

CleanPara(e) == [ e EXCEPT !.runs = [ k \in 1..Len(@) |-> CleanRun(@[k]) ] ]

\* _cleanup_text(doc)
cleanup_text(b) == [ i \in 1..Len(b) |-> IF IsPara(b[i]) THEN CleanPara(b[i]) ELSE b[i] ]

\* ------------------------------------------------------------ chapter formatter
HeadingRun(r) == [ r EXCEPT !.font = "Georgia", !.size = HeadingPt, !.bold = TRUE ]

FormatChapter(e) ==
  IF e.style = "Heading 1"
  THEN [ e EXCEPT !.page_break_before = TRUE, !.alignment = "center",
                  !.runs = [ k \in 1..Len(@) |-> HeadingRun(@[k]) ] ]
  ELSE e

\* _format_chapters(doc)
format_chapters(b) == [ i \in 1..Len(b) |-> IF IsPara(b[i]) THEN FormatChapter(b[i]) ELSE b[i] ]

\* -------------------------------------------------------------- body formatting
BodyRun(r) == [ r EXCEPT !.font = "Georgia", !.size = BodyPt ]

BodyStyleNames == { "Normal", "Body Text", "Body" }

\* body formatting applied whatever the paragraph's style
FormatBodyParaAnyStyle(e, ls) ==
  [ e EXCEPT !.line_spacing = ls, !.space_after = SpaceAfterPt,
             !.first_line_indent = Inches(25, 100),
             !.runs = [ k \in 1..Len(@) |-> BodyRun(@[k]) ] ]

FormatBodyPara(e, ls) ==
  IF e.style \in BodyStyleNames
  THEN [ e EXCEPT !.line_spacing = ls, !.space_after = SpaceAfterPt,
                  !.first_line_indent = Inches(25, 100),
                  !.runs = [ k \in 1..Len(@) |-> BodyRun(@[k]) ] ]
  ELSE e

\* _apply_body_formatting(doc, line_spacing)
apply_body_formatting(b, ls) ==
  [ i \in 1..Len(b) |-> IF IsPara(b[i]) THEN FormatBodyPara(b[i], ls) ELSE b[i] ]

\* ------------------------------------------------------------ image DPI scanner
\* an axis value taken as it was read
AxisDpiAsRead(v) == v

\* dpi_x = int(dpi_x) if dpi_x else 72
AxisDpi(v) == IF v # 0 THEN v ELSE DefaultDpi

\* the per-entry body of the scan loop: the warnings one entry adds
EntryWarnings(f, min_dpi) ==
  IF ~ (f.under_media /\ f.image_ext) THEN << >>
  ELSE IF ~ f.decodable
       THEN << [ image |-> f.name, dpi |-> Unset, required |-> min_dpi, kind |-> "error" ] >>
       ELSE LET dpi_x == AxisDpi(IF f.has_dpi THEN f.dpi_x ELSE DefaultDpi)
                dpi_y == AxisDpi(IF f.has_dpi THEN f.dpi_y ELSE DefaultDpi)
                avg_dpi == (dpi_x + dpi_y) \div 2
            IN  IF avg_dpi < min_dpi
                THEN << [ image |-> f.name, dpi |-> avg_dpi, required |-> min_dpi,
                          kind |-> "low" ] >>
                ELSE << >>

RECURSIVE ScanEntries(_, _)
ScanEntries(files, min_dpi) ==
  IF files = << >> THEN << >>
  ELSE EntryWarnings(Head(files), min_dpi) \o ScanEntries(Tail(files), min_dpi)

\* the entries up to and including the first image that fails to decode
UpToFirstError(files) ==
  LET bad == { i \in 1..Len(files) :
                 files[i].under_media /\ files[i].image_ext /\ ~ files[i].decodable }
  IN  IF bad = { } THEN files
      ELSE SubSeq(files, 1, CHOOSE i \in bad : \A j \in bad : i <= j)

\* a scan that stops at the first image it cannot decode
check_image_dpi_abort(openable, files, min_dpi) ==
  IF openable THEN ScanEntries(UpToFirstError(files), min_dpi)
  ELSE << [ image |-> "N/A", dpi |-> Unset, required |-> min_dpi, kind |-> "container" ] >>

\* check_image_dpi(docx_path, min_dpi)
check_image_dpi(openable, files, min_dpi) ==
  IF openable THEN ScanEntries(files, min_dpi)
  ELSE << [ image |-> "N/A", dpi |-> Unset, required |-> min_dpi, kind |-> "container" ] >>

\* ------------------------------------------------------------------ inputs
\* sections an input document can carry: a plain Letter page with a binding
\* gutter, and a page a print-mode pass has already marked as mirrored
LetterSection ==
  [ page_width |-> Inches(85, 10), page_height |-> Inches(11, 1),
    top_margin |-> Inches(1, 1), bottom_margin |-> Inches(1, 1),
    left_margin |-> Inches(125, 100), right_margin |-> Inches(125, 100),
    gutter |-> Inches(5, 10), mirrorMargins |-> 0 ]

MirroredSection ==
  [ page_width |-> Inches(6, 1), page_height |-> Inches(9, 1),
    top_margin |-> Inches(1, 1), bottom_margin |-> Inches(1, 1),
    left_margin |-> Inches(85, 100), right_margin |-> Inches(6, 10),
    gutter |-> Inches(0, 1), mirrorMargins |-> 1 ]

\* the section lists of the inputs: no section at all, one, two
InputSections ==
  { << >>, << LetterSection >>, << MirroredSection >>, << LetterSection, MirroredSection >> }

\* styles parts: none of the two styles, Normal only, both (as a word
\* processor's defaults set them)
InputNormal == [ NewStyle("Normal") EXCEPT !.font = "Calibri", !.size = BodyPt ]

InputHeading1 == [ NewStyle("Heading 1") EXCEPT !.font = "Calibri", !.size = 16 ]

InputStyles == { << >>, << InputNormal >>, << InputNormal, InputHeading1 >> }

\* entries of the package besides the document and styles parts
LowImage ==
  [ name |-> "low.png", under_media |-> TRUE, image_ext |-> TRUE, decodable |-> TRUE,
    has_dpi |-> FALSE, dpi_x |-> 0, dpi_y |-> 0 ]

PrintImage ==
  [ name |-> "print.png", under_media |-> TRUE, image_ext |-> TRUE, decodable |-> TRUE,
    has_dpi |-> TRUE, dpi_x |-> MinDpi, dpi_y |-> MinDpi ]

BrokenImage ==
  [ name |-> "broken.png", under_media |-> TRUE, image_ext |-> TRUE, decodable |-> FALSE,
    has_dpi |-> FALSE, dpi_x |-> 0, dpi_y |-> 0 ]

\* the media entries of the inputs
InputMedia ==
  { << >>, << LowImage >>, << PrintImage >>, << BrokenImage, LowImage >> }

\* an input run whose formatting is not the heading's
OddRun(text) == Run("text", "Arial", BodyPt, FALSE, text)

\* body elements of the input, by kind: heading, body paragraph, table
OrigElem(kind, i) ==
  CASE kind = "h" -> Elem("p", "orig", 0, i, "Heading 1", << OddRun(<< "X" >>) >>, "left")
    [] kind = "n" -> Elem("p", "orig", 0, i, "Normal", << OddRun(<< "X" >>) >>, "left")
    [] kind = "t" -> Elem("tbl", "orig", 0, i, "none", << >>, "inherit")

\* the body: the content, then the body's own w:sectPr when there are sections
InputBody(content, secs) == IF secs = << >> THEN content ELSE Append(content, SectPrElem)

Package(content, secs, sty, media) ==
  [ document |-> [ body |-> InputBody(content, secs), sections |-> secs ],
    styles |-> sty, media |-> media, other |-> "settings" ]

EmptyPackage ==
  [ document |-> [ body |-> << >>, sections |-> << >> ],
    styles |-> << >>, media |-> << >>, other |-> "none" ]

NoResult == [ returned |-> FALSE, success |-> FALSE, dpi_warnings |-> << >> ]

\* the state at a point of entry, given the package, the options, the body
\* in memory and the arguments of the image scan
StartAt(at, pkg, print, key, b, ok, floor) ==
  /\ pc = at
  /\ pass = 1
  /\ inPkg = pkg
  /\ outFile = "absent"
  /\ outPkg = EmptyPackage
  /\ trim_size = key
  /\ print_mode = print
  /\ line_spacing = 115
  /\ body = b
  /\ sections = << >>
  /\ styles = << >>
  /\ parts = [ media |-> << >>, other |-> "none" ]
  /\ dpi_warnings = << >>
  /\ result = NoResult
  /\ pre_front = << >>
  /\ pre_toc = << >>
  /\ pass1 = [ sections |-> << >>, styles |-> << >> ]
  /\ zip_ok = ok
  /\ dpi_floor = floor

\* the state before a call of format_manuscript, which scans the archive it
\* has just loaded against the default threshold
StartCall(pkg, print, key) == StartAt("load", pkg, print, key, << >>, TRUE, MinDpi)

\* a call with the default trim size
Start(pkg, print) == StartCall(pkg, print, "6x9")

\* documents of headings, body paragraphs and tables, with any sections,
\* styles part and media
Init ==
  \E kinds \in SeqsUpTo({ "h", "n", "t" }, MaxOrig),
     secs \in InputSections,
     sty \in InputStyles,
     media \in InputMedia,
     print \in BOOLEAN :
    Start(Package([ i \in 1..Len(kinds) |-> OrigElem(kinds[i], i) ], secs, sty, media), print)

\* ------------------------------------------------------- format_manuscript
\* the options and the input package do not change during a call
CallFrame == << pass, inPkg, trim_size, print_mode, line_spacing, zip_ok, dpi_floor >>

\* the except branch: a failure result, which carries an empty warning list
Fail ==
  /\ pc' = "failed"
  /\ result' = [ returned |-> TRUE, success |-> FALSE, dpi_warnings |-> << >> ]

\* a writer that keeps only the two parts it regenerates
SavedPackageXmlOnly(b, secs, sty, loaded) ==
  [ document |-> [ body |-> b, sections |-> secs ],
    styles |-> sty, media |-> << >>, other |-> "none" ]

\* the entries doc.save writes: the document and styles parts from the
\* trees in memory, every other part as it was loaded
SavedPackage(b, secs, sty, loaded) ==
  [ document |-> [ body |-> b, sections |-> secs ],
    styles |-> sty, media |-> loaded.media, other |-> loaded.other ]

\* doc = Document(input_path)
Load ==
  /\ pc = "load"
  /\ body' = inPkg.document.body
  /\ sections' = inPkg.document.sections
  /\ styles' = inPkg.styles
  /\ parts' = [ media |-> inPkg.media, other |-> inPkg.other ]
  /\ pc' = "scan"
  /\ UNCHANGED << CallFrame, outFile, outPkg, dpi_warnings, result, pre_front, pre_toc, pass1 >>

\* Document(input_path) raises: the input is not a readable package
LoadFail ==
  /\ pc = "load"
  /\ Fail
  /\ UNCHANGED << CallFrame, outFile, outPkg, body, sections, styles, parts,
                  dpi_warnings, pre_front, pre_toc, pass1 >>

\* dpi_warnings = check_image_dpi(input_path)
Scan ==
  /\ pc = "scan"
  /\ dpi_warnings' = check_image_dpi(zip_ok, inPkg.media, dpi_floor)
  /\ pc' = "page"
  /\ UNCHANGED << CallFrame, outFile, outPkg, body, sections, styles, parts,
                  result, pre_front, pre_toc, pass1 >>

PageDimensions ==
  /\ pc = "page"
  /\ sections' = setup_page_dimensions(sections, trim_size, print_mode)
  /\ pc' = "styles"
  /\ UNCHANGED << CallFrame, outFile, outPkg, body, styles, parts,
                  dpi_warnings, result, pre_front, pre_toc, pass1 >>

Styles ==
  /\ pc = "styles"
  /\ styles' = setup_styles(styles, line_spacing)
  /\ pc' = "cleanup"
  /\ UNCHANGED << CallFrame, outFile, outPkg, body, sections, parts,
                  dpi_warnings, result, pre_front, pre_toc, pass1 >>

Cleanup ==
  /\ pc = "cleanup"
  /\ body' = cleanup_text(body)
  /\ pc' = "chapters"
  /\ UNCHANGED << CallFrame, outFile, outPkg, sections, styles, parts,
                  dpi_warnings, result, pre_front, pre_toc, pass1 >>

Chapters ==
  /\ pc = "chapters"
  /\ body' = format_chapters(body)
  /\ pc' = "bodyfmt"
  /\ UNCHANGED << CallFrame, outFile, outPkg, sections, styles, parts,
                  dpi_warnings, result, pre_front, pre_toc, pass1 >>

BodyFormatting ==
  /\ pc = "bodyfmt"
  /\ body' = apply_body_formatting(body, line_spacing)
  /\ pc' = "front"
  /\ UNCHANGED << CallFrame, outFile, outPkg, sections, styles, parts,
                  dpi_warnings, result, pre_front, pre_toc, pass1 >>

FrontMatter ==
  /\ pc = "front"
  /\ pre_front' = body
  /\ body' = insert_front_matter(body, pass)
  /\ pc' = "toc"
  /\ UNCHANGED << CallFrame, outFile, outPkg, sections, styles, parts,
                  dpi_warnings, result, pre_toc, pass1 >>

Toc ==
  /\ pc = "toc"
  /\ pre_toc' = body
  /\ body' = insert_toc(body, pass)
  /\ pc' = "save"
  /\ UNCHANGED << CallFrame, outFile, outPkg, sections, styles, parts,
                  dpi_warnings, result, pre_front, pass1 >>

\* doc.save(output_path) creates the archive file at the output path ...
SaveOpen ==
  /\ pc = "save"
  /\ outFile' = "partial"
  /\ pc' = "write"
  /\ UNCHANGED << CallFrame, outPkg, body, sections, styles, parts,
                  dpi_warnings, result, pre_front, pre_toc, pass1 >>

\* ... or cannot create it
SaveOpenFail ==
  /\ pc = "save"
  /\ Fail
  /\ UNCHANGED << CallFrame, outFile, outPkg, body, sections, styles, parts,
                  dpi_warnings, pre_front, pre_toc, pass1 >>

\* the entries are written, the archive is closed, the success result returned
SaveWrite ==
  /\ pc = "write"
  /\ outFile' = "complete"
  /\ outPkg' = SavedPackage(body, sections, styles, parts)
  /\ result' = [ returned |-> TRUE, success |-> TRUE, dpi_warnings |-> dpi_warnings ]
  /\ pass1' = IF pass = 1 THEN [ sections |-> sections, styles |-> styles ] ELSE pass1
  /\ pc' = "done"
  /\ UNCHANGED << CallFrame, body, sections, styles, parts,
                  dpi_warnings, pre_front, pre_toc >>

\* writing an entry raises (the device is full, the file is withdrawn):
\* the except branch returns and nothing removes what was written
SaveWriteFail ==
  /\ pc = "write"
  /\ Fail
  /\ UNCHANGED << CallFrame, outFile, outPkg, body, sections, styles, parts,
                  dpi_warnings, pre_front, pre_toc, pass1 >>

\* the written package is formatted again, with identical options, to a
\* fresh output path
Reformat ==
  /\ pc = "done"
  /\ pass < MaxPass
  /\ pass' = pass + 1
  /\ inPkg' = outPkg
  /\ outFile' = "absent"
  /\ outPkg' = EmptyPackage
  /\ body' = << >>
  /\ sections' = << >>
  /\ styles' = << >>
  /\ parts' = [ media |-> << >>, other |-> "none" ]
  /\ dpi_warnings' = << >>
  /\ result' = NoResult
  /\ pre_front' = << >>
  /\ pre_toc' = << >>
  /\ pc' = "load"
  /\ UNCHANGED << trim_size, print_mode, line_spacing, pass1, zip_ok, dpi_floor >>

Next ==
  \/ Load \/ LoadFail \/ Scan \/ PageDimensions \/ Styles \/ Cleanup \/ Chapters
  \/ BodyFormatting \/ FrontMatter \/ Toc
  \/ SaveOpen \/ SaveOpenFail \/ SaveWrite \/ SaveWriteFail \/ Reformat

Spec == Init /\ [][Next]_vars

\* documents of paragraphs in any style with any paragraph and run formatting
HeadingLikeRun(text) == Run("text", "Georgia", HeadingPt, TRUE, text)

InputRuns == { OddRun(<< "X" >>), HeadingLikeRun(<< "X" >>) }

InputParas(i) ==
  { [ Elem("p", "orig", 0, i, sty, runs, align) EXCEPT !.page_break_before = pbb ] :
      sty \in { "Heading 1", "Normal", "Title" }, runs \in SeqsUpTo(InputRuns, MaxRuns),
      align \in { "left", "center" }, pbb \in BOOLEAN }

\* a paragraph of any style and formatting, then a body paragraph
InitFmt ==
  \E para \in InputParas(1), print \in BOOLEAN :
    Start(Package(<< para, OrigElem("n", 2) >>, << LetterSection >>, << InputNormal >>, << >>),
          print)

SpecFmt == InitFmt /\ [][Next]_vars

\* documents of one paragraph with one run of any text
Alphabet == { "T", "S", "N", "X" }

InitText ==
  \E text \in SeqsUpTo(Alphabet, MaxLen) :
    Start(Package(<< Elem("p", "orig", 0, 1, "Normal", << OddRun(text) >>, "left") >>,
                  << LetterSection >>, << InputNormal >>, << >>), FALSE)

SpecText == InitText /\ [][Next]_vars

\* ---------------------------------------------------------------- properties
FrontOrgs == { "title", "copyright", "dedication" }

\* the elements the current call created
IsFront(e) == e.gen = pass /\ e.org \in FrontOrgs
IsToc(e) == e.gen = pass /\ e.org = "toc"

\* C1: after insert_front_matter on a non-empty body, the body is the title
\* fragment, the copyright fragment, the dedication fragment, each in the
\* order it was generated, then the original elements in their order.
C1_FrontMatterInOrder ==
  (pc = "toc" /\ Len(pre_front) > 0) =>
     body = create_title_page(pass) \o create_copyright_page(pass)
            \o create_dedication_page(pass) \o pre_front

FragmentRank(e) ==
  CASE e.org = "title" -> 1 [] e.org = "copyright" -> 2 [] e.org = "dedication" -> 3

\* C2: after the full pipeline on non-empty original content the order is
\* title fragment, copyright fragment, dedication fragment, TOC block,
\* original content.
C2_TocBetweenFrontMatterAndContent ==
  (pc = "save" /\ Len(pre_front) > 0) =>
     \A i, j \in 1..Len(body) :
        /\ (IsFront(body[i]) /\ IsFront(body[j])
              /\ FragmentRank(body[i]) < FragmentRank(body[j])) => i < j
        /\ (IsFront(body[i]) /\ IsToc(body[j])) => i < j
        /\ (IsToc(body[i]) /\ Contains(pre_front, body[j])) => i < j

\* C3: a failure result carries every DPI warning the scan of that call
\* collected.
C3_FailureKeepsWarnings ==
  pc = "failed" => result.dpi_warnings = dpi_warnings

\* C4: a call that returns a failure result leaves no file at the output
\* path; a complete archive exists exactly when the result is success.
C4_NoOutputOnFailure ==
  result.returned =>
     \/ result.success /\ outFile = "complete"
     \/ ~ result.success /\ outFile = "absent"

\* C5 as stated: the written package holds every input entry unchanged
\* except the main document part.
C5_OnlyDocumentPartChanges ==
  pc = "done" =>
     /\ outPkg.styles = inPkg.styles
     /\ outPkg.media = inPkg.media
     /\ outPkg.other = inPkg.other

\* C5 amended: the pipeline rewrites the main document part and the styles
\* part; every other entry of the input is written as it was loaded, and no
\* stage changes it in memory.
C5_OtherPartsUnchanged ==
  /\ pc \notin { "load", "failed" } => (parts.media = inPkg.media /\ parts.other = inPkg.other)
  /\ pc = "done" => (outPkg.media = inPkg.media /\ outPkg.other = inPkg.other)

C5_Witness ==
  /\ pc = "done"
  /\ inPkg.media # << >>
  /\ outPkg.styles # inPkg.styles
  /\ outPkg.document # inPkg.document

\* C6: after _setup_page_dimensions every section has left = inside and
\* right = outside; in print mode gutter 0 and a mirrored-margins marker;
\* out of print mode no mirrored-margins marker.
C6_MarginsAndMarker ==
  pc = "styles" =>
     \A i \in 1..Len(sections) :
        /\ sections[i].left_margin = MARGINS.inside
        /\ sections[i].right_margin = MARGINS.outside
        /\ print_mode => (sections[i].gutter = 0 /\ sections[i].mirrorMargins >= 1)
        /\ ~ print_mode => sections[i].mirrorMargins = 0

\* C7: formatting the written package again with identical options leaves
\* every section's properties, marker included, and the style values as the
\* first pass left them, and duplicates no style.
C7_SecondPassIdempotent ==
  (pc = "done" /\ pass >= 2) =>
     /\ sections = pass1.sections
     /\ styles = pass1.styles
     /\ \A i, j \in 1..Len(styles) : styles[i].name = styles[j].name => i = j

ParasBefore(b, k) == Cardinality({ i \in 1..(k - 1) : IsPara(b[i]) })

TocHeading(gen) == toc_elements(gen)[1]

\* C8: at most 30 paragraph elements precede the TOC heading; with fewer
\* paragraphs than the cap the TOC block is at the end of the body.
C8_TocWithinCap ==
  pc = "save" =>
     /\ ParasBefore(body, IndexOf(body, TocHeading(pass))) <= TocCap
     /\ Cardinality(ParaIdx(pre_toc)) < TocCap =>
          \A i \in 1..Len(body) :
             (i > IndexOf(body, TocHeading(pass))) => (IsToc(body[i]) \/ body[i].tag = "sectPr")

HeadingFormatted(e) ==
  /\ e.page_break_before
  /\ e.alignment = "center"
  /\ \A k \in 1..Len(e.runs) :
        e.runs[k].font = "Georgia" /\ e.runs[k].size = HeadingPt /\ e.runs[k].bold

AllHeadingsFormatted(b) ==
  \A i \in 1..Len(b) : (IsPara(b[i]) /\ b[i].style = "Heading 1") => HeadingFormatted(b[i])

\* C9: from the chapter formatter on, and in the written document, every
\* level-one heading paragraph has page-break-before, centered alignment
\* and every run at the heading font, size and weight.
C9_HeadingsFormatted ==
  /\ pc \in { "bodyfmt", "front", "toc", "save", "write", "done" } => AllHeadingsFormatted(body)
  /\ outFile = "complete" => AllHeadingsFormatted(outPkg.document.body)

\* a heading that came in left-aligned, without a page break, with two runs
\* of which the first is not in the heading's formatting, has been written
C9_Witness ==
  /\ pc = "done"
  /\ pass = 1
  /\ \E i \in 1..Len(inPkg.document.body), j \in 1..Len(outPkg.document.body) :
        LET e == inPkg.document.body[i]
            w == outPkg.document.body[j]
        IN  /\ e.style = "Heading 1" /\ ~ e.page_break_before /\ e.alignment = "left"
            /\ Len(e.runs) = 2 /\ e.runs[1] = OddRun(<< "X" >>)
            /\ w.org = "orig" /\ w.idx = e.idx /\ w.style = "Heading 1"
            /\ HeadingFormatted(w)

HasTab(t) == \E i \in 1..Len(t) : t[i] = "T"
HasDoubleSpace(t) == \E i \in 1..(Len(t) - 1) : t[i] = "S" /\ t[i + 1] = "S"
HasTripleNewline(t) == \E i \in 1..(Len(t) - 2) : t[i] = "N" /\ t[i + 1] = "N" /\ t[i + 2] = "N"

Normalized(t) == ~ HasTab(t) /\ ~ HasDoubleSpace(t) /\ ~ HasTripleNewline(t)

\* C10: after _cleanup_text no run's text holds a tab, two consecutive
\* spaces or three consecutive newlines.
C10_TextNormalized ==
  pc = "chapters" =>
     \A i \in 1..Len(body) : \A k \in 1..Len(body[i].runs) : Normalized(body[i].runs[k].text)

\* the text that came in had a tab next to a space and three newlines in a
\* row, and the cleanup has run on it
C10_Witness ==
  /\ pc = "chapters"
  /\ pass = 1
  /\ LET t == inPkg.document.body[1].runs[1].text
     IN  /\ \E i \in 1..(Len(t) - 1) : t[i] = "S" /\ t[i + 1] = "T"
         /\ HasTripleNewline(t)
         /\ body[1].runs[1].text # t
         /\ Len(body[1].runs[1].text) = 3

\* ----------------------------------------------------------------- trim sizes
\* the trim_size values a caller can send: the three presets, and form
\* values that are no key of TRIM_SIZES
TrimKeys == { "6x9", "5x8", "8.5x11", "A4", "" }

InitTrim ==
  \E key \in TrimKeys, secs \in InputSections, print \in BOOLEAN :
    StartCall(Package(<< OrigElem("n", 1) >>, secs, << InputNormal >>, << >>), print, key)

SpecTrim == InitTrim /\ [][Next]_vars

\* the preset dimensions, in twentieths of a point
PresetWidth(key) ==
  CASE key = "6x9" -> 6 * 1440 [] key = "5x8" -> 5 * 1440 [] key = "8.5x11" -> 12240
    [] OTHER -> 6 * 1440

PresetHeight(key) ==
  CASE key = "6x9" -> 9 * 1440 [] key = "5x8" -> 8 * 1440 [] key = "8.5x11" -> 11 * 1440
    [] OTHER -> 9 * 1440

HasPresetSize(secs, key) ==
  \A i \in 1..Len(secs) :
     secs[i].page_width = PresetWidth(key) /\ secs[i].page_height = PresetHeight(key)

\* C11: for each preset key every section of the formatted document has
\* that preset's width and height; for any other key every section has the
\* 6x9 width and height, and the page stage does not end the call.
C11_TrimSizeApplied ==
  /\ pc \in { "styles", "cleanup", "chapters", "bodyfmt", "front", "toc", "save", "write", "done" }
       => HasPresetSize(sections, trim_size)
  /\ outFile = "complete" => HasPresetSize(outPkg.document.sections, trim_size)
  /\ pc = "page" => ENABLED PageDimensions

\* a call with a key that is no preset has succeeded on a document whose
\* two sections came in with other dimensions
C11_Witness ==
  /\ pc = "done"
  /\ pass = 1
  /\ result.success
  /\ trim_size \notin DOMAIN TRIM_SIZES
  /\ Len(outPkg.document.sections) = 2
  /\ inPkg.document.sections[1].page_width # PresetWidth(trim_size)

\* ------------------------------------------------------------ the image scan
\* check_image_dpi called on its own: any archive, openable or not, with up
\* to MaxMedia entries, against the default threshold or a lower one
MaxMedia == 2

\* resolutions an axis can carry: zero, just below and at the threshold, and
\* one that averages with the default to the threshold
AxisValues == { 0, MinDpi - 1, MinDpi, 2 * MinDpi - DefaultDpi }

\* entries of an archive, by what the scan can see of them
EntryKinds ==
  { [ name |-> "", under_media |-> m, image_ext |-> x, decodable |-> TRUE,
      has_dpi |-> FALSE, dpi_x |-> 0, dpi_y |-> 0 ] :
      m \in BOOLEAN, x \in BOOLEAN }
  \cup { [ name |-> "", under_media |-> TRUE, image_ext |-> TRUE, decodable |-> FALSE,
           has_dpi |-> FALSE, dpi_x |-> 0, dpi_y |-> 0 ] }
  \cup { [ name |-> "", under_media |-> TRUE, image_ext |-> TRUE, decodable |-> TRUE,
           has_dpi |-> TRUE, dpi_x |-> x, dpi_y |-> y ] :
           x \in AxisValues, y \in AxisValues }

\* the entries of an archive have distinct names
EntryNames == << "image1.png", "image2.png", "image3.png", "image4.png" >>

InputEntries ==
  { [ i \in 1..Len(ks) |-> [ ks[i] EXCEPT !.name = EntryNames[i] ] ] :
      ks \in SeqsUpTo(EntryKinds, MaxMedia) }

InitDpi ==
  \E files \in InputEntries, ok \in BOOLEAN, floor \in { MinDpi, DefaultDpi } :
    StartAt("dpi", Package(<< >>, << >>, << >>, files), FALSE, "6x9", << >>, ok, floor)

\* warnings = check_image_dpi(docx_path, min_dpi)
ScanDpi ==
  /\ pc = "dpi"
  /\ dpi_warnings' = check_image_dpi(zip_ok, inPkg.media, dpi_floor)
  /\ pc' = "dpi_done"
  /\ UNCHANGED << CallFrame, outFile, outPkg, body, sections, styles, parts,
                  result, pre_front, pre_toc, pass1 >>

NextDpi == ScanDpi

SpecDpi == InitDpi /\ [][NextDpi]_vars

\* the warnings about one entry, in the order they were emitted
WarningsFor(name) == SelectSeq(dpi_warnings, LAMBDA w : w.image = name)

IsMediaImage(f) == f.under_media /\ f.image_ext

\* C12: the scan always returns; when the archive cannot be opened the
\* result is one warning about the archive and nothing else; otherwise each
\* media image that cannot be decoded has exactly one warning, an error
\* one, and every other entry has the warnings it has when scanned alone.
C12_ScanNeverAborts ==
  /\ pc = "dpi" => ENABLED ScanDpi
  /\ pc = "dpi_done" /\ ~ zip_ok =>
       /\ Len(dpi_warnings) = 1
       /\ dpi_warnings[1].kind = "container"
       /\ dpi_warnings[1].required = dpi_floor
  /\ pc = "dpi_done" /\ zip_ok =>
       /\ \A i \in 1..Len(inPkg.media) :
            LET f == inPkg.media[i]
            IN  /\ IsMediaImage(f) /\ ~ f.decodable =>
                     /\ Len(WarningsFor(f.name)) = 1
                     /\ WarningsFor(f.name)[1].kind = "error"
                /\ WarningsFor(f.name) = ScanEntries(<< f >>, dpi_floor)
       /\ \A k \in 1..Len(dpi_warnings) :
            \E i \in 1..Len(inPkg.media) : dpi_warnings[k].image = inPkg.media[i].name

\* an image that cannot be decoded is followed by one with no resolution
\* metadata, and the scan has reported both
C12_Witness ==
  /\ pc = "dpi_done"
  /\ zip_ok
  /\ dpi_floor = MinDpi
  /\ Len(inPkg.media) = 2
  /\ IsMediaImage(inPkg.media[1]) /\ ~ inPkg.media[1].decodable
  /\ IsMediaImage(inPkg.media[2]) /\ inPkg.media[2].decodable /\ ~ inPkg.media[2].has_dpi
  /\ Len(dpi_warnings) = 2
  /\ dpi_warnings[1].kind = "error"
  /\ dpi_warnings[2].kind = "low"

\* the warning an image must have when its axes count as x and y: exactly
\* one, reporting the floor average and the threshold, when that average is
\* below the threshold, and none otherwise
WarnedAsAverage(f, x, y) ==
  LET avg == (x + y) \div 2
  IN  IF avg < dpi_floor
      THEN /\ Len(WarningsFor(f.name)) = 1
           /\ WarningsFor(f.name)[1].kind = "low"
           /\ WarningsFor(f.name)[1].dpi = avg
           /\ WarningsFor(f.name)[1].required = dpi_floor
      ELSE Len(WarningsFor(f.name)) = 0

\* C13 as stated: every decodable media image is warned about by the floor
\* average of its two axis resolutions as recorded, with 72 on both axes
\* when it has no resolution metadata.
C13_WarnedByRecordedAverage ==
  pc = "dpi_done" /\ zip_ok =>
    \A i \in 1..Len(inPkg.media) :
      LET f == inPkg.media[i]
      IN  IsMediaImage(f) /\ f.decodable =>
            WarnedAsAverage(f, IF f.has_dpi THEN f.dpi_x ELSE DefaultDpi,
                               IF f.has_dpi THEN f.dpi_y ELSE DefaultDpi)

\* C13: every decodable media image is warned about by the floor average of
\* its two axis resolutions, where an axis counts as 72 when the image has
\* no resolution metadata or records zero for that axis.
C13_WarnedByEffectiveAverage ==
  pc = "dpi_done" /\ zip_ok =>
    \A i \in 1..Len(inPkg.media) :
      LET f == inPkg.media[i]
      IN  IsMediaImage(f) /\ f.decodable =>
            WarnedAsAverage(f, IF f.has_dpi /\ f.dpi_x # 0 THEN f.dpi_x ELSE DefaultDpi,
                               IF f.has_dpi /\ f.dpi_y # 0 THEN f.dpi_y ELSE DefaultDpi)

\* an image recording zero on one axis passes the default threshold although
\* its recorded average is below it, next to an image one below the
\* threshold on one axis that is warned about
C13_Witness ==
  /\ pc = "dpi_done"
  /\ zip_ok
  /\ dpi_floor = MinDpi
  /\ Len(inPkg.media) = 2
  /\ IsMediaImage(inPkg.media[1]) /\ inPkg.media[1].decodable /\ inPkg.media[1].has_dpi
  /\ inPkg.media[1].dpi_x = 0
  /\ inPkg.media[1].dpi_y = 2 * MinDpi - DefaultDpi
  /\ IsMediaImage(inPkg.media[2]) /\ inPkg.media[2].decodable /\ inPkg.media[2].has_dpi
  /\ inPkg.media[2].dpi_x = MinDpi - 1
  /\ inPkg.media[2].dpi_y = MinDpi
  /\ Len(dpi_warnings) = 1
  /\ dpi_warnings[1].image = inPkg.media[2].name
  /\ dpi_warnings[1].dpi = MinDpi - 1

\* ------------------------------------------------------- _insert_toc alone
\* _insert_toc called on any document: up to MaxBody body paragraphs, with
\* or without a table in front of them, with or without the body's w:sectPr
MaxBody == 32

TocInputBody(n, table, sect) ==
  LET paras == [ i \in 1..n |-> OrigElem("n", i) ]
      content == IF table THEN << OrigElem("t", 0) >> \o paras ELSE paras
  IN  IF sect THEN Append(content, SectPrElem) ELSE content

InitToc ==
  \E n \in 0..MaxBody, table \in BOOLEAN, sect \in BOOLEAN :
    StartAt("toc_call", EmptyPackage, FALSE, "6x9", TocInputBody(n, table, sect),
            TRUE, MinDpi)

\* _insert_toc(doc)
TocAlone ==
  /\ pc = "toc_call"
  /\ pre_toc' = body
  /\ body' = insert_toc(body, pass)
  /\ pc' = "toc_done"
  /\ UNCHANGED << CallFrame, outFile, outPkg, sections, styles, parts,
                  dpi_warnings, result, pre_front, pass1 >>

NextToc == TocAlone

SpecToc == InitToc /\ [][NextToc]_vars

\* the four elements of the table of contents sit at p, p+1, p+2, p+3
TocBlockAt(b, p) ==
  /\ p + 3 <= Len(b)
  /\ \A k \in 1..4 : b[p + k - 1].org = "toc" /\ b[p + k - 1].idx = k

\* the run kinds of the field paragraph, in the order they appear
FieldRunKinds(b) ==
  LET i == CHOOSE i \in 1..Len(b) : b[i].org = "toc" /\ b[i].idx = 3
  IN  [ k \in 1..Len(b[i].runs) |-> b[i].runs[k].kind ]

FieldRunsInOrder(b) ==
  FieldRunKinds(b) = << "fld_begin", "instrText", "fld_separate", "text", "fld_end" >>

\* C14: after _insert_toc, whatever the body it was given, the heading, the
\* spacer, the field paragraph and the page break are adjacent and in that
\* order, and the field paragraph's runs are begin, instruction, separator,
\* fallback text, end.
C14_TocBlockInOrder ==
  pc = "toc_done" =>
    /\ \E p \in 1..Len(body) : TocBlockAt(body, p)
    /\ FieldRunsInOrder(body)

====
